---- MODULE Spec2Model ----
(***************************************************************************)
(* Model of scripts/chunk_content.py: the tokenizer capability, the        *)
(* paragraph/sentence segmenter (chunk_by_paragraphs), the token-window    *)
(* slicer (split_text_by_tokens), the chunk record builder                 *)
(* (chunk_document) and the batch driver (process_all_documents); and of    *)
(* scripts/generate_embeddings.py: the embedding stage (process_chunks).   *)
(*                                                                         *)
(* A text is a sequence of one-character strings.  Python's str methods    *)
(* (split, strip, join) are modelled by what they do on such sequences.    *)
(***************************************************************************)
EXTENDS Integers, Sequences, FiniteSets, TLC

(***************************************************************************)
(* Bounds of the model.                                                    *)
(***************************************************************************)
\* longest text enumerated exhaustively for the small configurations
MaxLen == 5
\* longest text handed to the slicer in SpecSlice
MaxSliceLen == 6
\* largest max_tokens / overlap argument tried in SpecSlice
MaxWindow == 3
\* most paragraphs a long document is assembled from
MaxSegs == 2
\* most files of one batch
MaxFiles == 2
\* most chunk records chunks.json holds for the embedding stage
MaxChunks == 201
\* chunk records of one document in chunks.json
ChunksPerDocument == 7
\* different answers the embeddings API gives to one request
MaxResponses == 2

(***************************************************************************)
(* Sequence helpers.                                                       *)
(***************************************************************************)
Rep(c, k) == [i \in 1..k |-> c]

Idx(k) == [i \in 1..k |-> i]

\* Python's s[lo:hi] for 0 <= lo, on 1-based sequences: elements lo+1..min(hi,len)
Slice(s, lo, hi) ==
  LET h == IF hi > Len(s) THEN Len(s) ELSE hi
  IN IF h <= lo THEN << >> ELSE SubSeq(s, lo + 1, h)

\* Python's s[lo:hi] with a possibly negative lo or hi (counted from the end)
PySlice(s, lo, hi) ==
  LET n  == Len(s)
      l0 == IF lo < 0 THEN (IF lo + n < 0 THEN 0 ELSE lo + n) ELSE lo
      h0 == IF hi < 0 THEN (IF hi + n < 0 THEN 0 ELSE hi + n) ELSE hi
  IN Slice(s, l0, h0)

\* concatenation of a sequence of sequences (balanced, so the depth is logarithmic)
RECURSIVE Cat(_)
Cat(ss) ==
  IF Len(ss) = 0 THEN << >>
  ELSE IF Len(ss) = 1 THEN ss[1]
  ELSE LET h == Len(ss) \div 2
       IN Cat(SubSeq(ss, 1, h)) \o Cat(SubSeq(ss, h + 1, Len(ss)))

\* sum of a sequence of integers (balanced)
RECURSIVE Sum(_)
Sum(ns) ==
  IF Len(ns) = 0 THEN 0
  ELSE IF Len(ns) = 1 THEN ns[1]
  ELSE LET h == Len(ns) \div 2
       IN Sum(SubSeq(ns, 1, h)) + Sum(SubSeq(ns, h + 1, Len(ns)))

\* sep.join(parts)
Join(parts, sep) ==
  Cat([k \in 1..Len(parts) |-> IF k = 1 THEN parts[k] ELSE sep \o parts[k]])

(***************************************************************************)
(* Python str methods used by the chunker.                                 *)
(***************************************************************************)
IsWs(c) == c \in {" ", "\n"}

\* str.strip(): leading and trailing whitespace removed
Strip(t) ==
  LET n == Len(t)
  IN IF \A i \in 1..n : IsWs(t[i]) THEN << >>
     ELSE LET first == CHOOSE i \in 1..n :
                         ~IsWs(t[i]) /\ \A j \in 1..(i - 1) : IsWs(t[j])
              last  == CHOOSE i \in 1..n :
                         ~IsWs(t[i]) /\ \A j \in (i + 1)..n : IsWs(t[j])
          IN SubSeq(t, first, last)

\* the pieces of t between separators of width w that start at the positions seps
Pieces(t, seps, w) ==
  LET m == Len(seps)
  IN [k \in 1..(m + 1) |->
        LET lo == IF k = 1 THEN 1 ELSE seps[k - 1] + w
            hi == IF k = m + 1 THEN Len(t) ELSE seps[k] - 1
        IN SubSeq(t, lo, hi)]

\* str.split('.'): every period is a separator
SplitPeriod(t) ==
  LET isSep(i) == t[i] = "."
  IN Pieces(t, SelectSeq(Idx(Len(t)), isSep), 1)

\* number of consecutive newlines that end just before position i
NewlinesBefore(t, i) ==
  Cardinality({j \in 1..(i - 1) : \A k \in j..(i - 1) : t[k] = "\n"})

\* str.split('\n\n'): separators are matched left to right without overlap, so
\* inside a run of newlines they start at the run's 1st, 3rd, 5th ... character
SplitBlankLine(t) ==
  LET isSep(i) == /\ t[i] = "\n"
                  /\ i < Len(t)
                  /\ t[i + 1] = "\n"
                  /\ NewlinesBefore(t, i) % 2 = 0
  IN Pieces(t, SelectSeq(Idx(Len(t)), isSep), 2)

\* (mutant) every piece is kept
KeepsEveryPiece(t) == TRUE

\* if p.strip() / if s.strip(): only pieces with text are kept
NonEmpty(t) == Len(t) > 0

(***************************************************************************)
(* Chunking configuration: the module-level constants of the script.  The  *)
(* script has no other way of being configured than by editing them, so    *)
(* the configuration in force is a variable, fixed at start-up, and the    *)
(* values of the source are the canonical configuration.                   *)
(***************************************************************************)
TARGET_CHUNK_SIZE == 750
MAX_CHUNK_SIZE == 1000
MIN_CHUNK_SIZE == 100
OVERLAP_SIZE == 50

VARIABLES
  config,           \* the chunking configuration in force
  files,            \* process_all_documents: the raw files found, in glob order
  next_file,        \* process_all_documents: position of the for loop over files
  all_chunks_data,  \* process_all_documents: chunk records accumulated so far
  total_chunks,     \* process_all_documents: running number of chunks
  total_tokens,     \* process_all_documents: running number of tokens
  outcome,          \* what became of each file handled so far
  pc,               \* process_all_documents: where the run is
  text,             \* split_text_by_tokens: argument
  max_tokens,       \* split_text_by_tokens: argument
  overlap,          \* split_text_by_tokens: argument
  tokens,           \* split_text_by_tokens: local
  start,            \* split_text_by_tokens: local
  chunks,           \* split_text_by_tokens: local
  spans,            \* split_text_by_tokens: the (start, end) of every window taken
  slice_pc,         \* split_text_by_tokens: where the call is
  chunks_file,      \* process_chunks: chunks.json on disk
  loaded_chunks,    \* process_chunks: chunks (the records loaded)
  batch_start,      \* process_chunks: i, the start of the batch in hand
  embeddings_data,  \* process_chunks: embedding records accumulated so far
  embedded_tokens,  \* process_chunks: total_tokens
  retry_count,      \* generate_embeddings_batch: retry_count of the call in hand
  responses,        \* the embeddings the API returned, batch by batch
  attempts,         \* API calls made for the batch last sent to the API
  embeddings_file,  \* embeddings.json as this run has written it
  embed_pc          \* process_chunks: where the run is

vars == << config, files, next_file, all_chunks_data, total_chunks, total_tokens,
           outcome, pc, text, max_tokens, overlap, tokens, start, chunks, spans,
           slice_pc, chunks_file, loaded_chunks, batch_start, embeddings_data,
           embedded_tokens, retry_count, responses, attempts, embeddings_file,
           embed_pc >>

embed_vars == << chunks_file, loaded_chunks, batch_start, embeddings_data,
                 embedded_tokens, retry_count, responses, attempts,
                 embeddings_file, embed_pc >>

batch_vars == << config, files, next_file, all_chunks_data, total_chunks,
                 total_tokens, outcome, pc >>

slice_vars == << text, max_tokens, overlap, tokens, start, chunks, spans, slice_pc >>

Canonical ==
  [target_chunk_size |-> TARGET_CHUNK_SIZE, max_chunk_size |-> MAX_CHUNK_SIZE,
   min_chunk_size |-> MIN_CHUNK_SIZE, overlap_size |-> OVERLAP_SIZE]

(***************************************************************************)
(* Tokenizer capability (tiktoken's ENCODING).  A token is one             *)
(* non-whitespace character together with at most one space in front of    *)
(* it, or a maximal run of whitespace (less a final space that the next    *)
(* token takes).  So a blank line between two paragraphs is a token of     *)
(* its own and token counts are not additive under '\n\n'.join.            *)
(***************************************************************************)
IsTokenStart(t, i) ==
  \/ i = 1
  \/ /\ ~IsWs(t[i])
     /\ t[i - 1] # " "
  \/ /\ t[i] = " "
     /\ i < Len(t)
     /\ ~IsWs(t[i + 1])
  \/ /\ IsWs(t[i])
     /\ ~IsWs(t[i - 1])

\* ENCODING.encode(text): the token sequence; a token is kept as its own text
encode(t) ==
  LET isStart(i) == IsTokenStart(t, i)
      s == SelectSeq(Idx(Len(t)), isStart)
      m == Len(s)
  IN [k \in 1..m |-> SubSeq(t, s[k], IF k = m THEN Len(t) ELSE s[k + 1] - 1)]

\* ENCODING.decode(tokens)
decode(toks) == Cat(toks)

\* the text of a special token of the encoding, kept as one character;
\* ENCODING.encode raises for a text that holds it
SpecialToken == "<|endoftext|>"
EncodeRaises(t) == \E k \in 1..Len(t) : t[k] = SpecialToken

count_tokens(t) == Len(encode(t))

(***************************************************************************)
(* split_text_by_tokens(text, max_tokens, overlap).                        *)
(***************************************************************************)
\* the window of one iteration: tokens[start:end]
WindowTokens(toks, s, e) == PySlice(toks, s, e)

\* (mutant) the next window starts one token after the end of this one
NextStartPastEnd(e, ovl) == e + 1

\* (mutant) the next window starts where this one ended
NextStartAtEnd(e, ovl) == e

\* the start of the next iteration: start = end - overlap
NextStart(e, ovl) == e - ovl

\* (mutant) the loop goes on when the window ends exactly at the last token
ReachedEndBeyond(e, n) == e > n

\* if end >= len(tokens): break
ReachedEnd(e, n) == e >= n

\* the call never returns: the first window does not reach the end of the
\* tokens and the start offset does not advance (SpecSlice steps through the
\* loop itself; SliceAgreesWithLoop relates the two)
SliceDiverges(t, maxTokens, ovl) ==
  /\ count_tokens(t) > maxTokens
  /\ NextStart(maxTokens, ovl) <= 0

\* the while loop, from the state (start, chunks)
RECURSIVE SliceLoop(_, _, _, _, _)
SliceLoop(toks, maxTokens, ovl, s, acc) ==
  IF ~(s < Len(toks)) THEN acc
  ELSE LET e    == s + maxTokens
           acc2 == Append(acc, decode(WindowTokens(toks, s, e)))
       IN IF ReachedEnd(e, Len(toks)) THEN acc2
          ELSE SliceLoop(toks, maxTokens, ovl, NextStart(e, ovl), acc2)

\* the list the call returns, for arguments with which it returns
split_text_by_tokens(t, maxTokens, ovl) ==
  SliceLoop(encode(t), maxTokens, ovl, 0, << >>)

(***************************************************************************)
(* chunk_by_paragraphs(text, target_size).                                 *)
(***************************************************************************)
\* [p.strip() for p in text.split('\n\n') if p.strip()]
Paragraphs(t) ==
  LET pieces   == SplitBlankLine(t)
      stripped == [k \in 1..Len(pieces) |-> Strip(pieces[k])]
  IN SelectSeq(stripped, NonEmpty)

\* [s.strip() + '.' for s in paragraph.split('.') if s.strip()]
Sentences(paragraph) ==
  LET pieces   == SplitPeriod(paragraph)
      stripped == [k \in 1..Len(pieces) |-> Strip(pieces[k])]
      kept     == SelectSeq(stripped, NonEmpty)
  IN [k \in 1..Len(kept) |-> kept[k] \o << "." >>]

\* the paragraph is too large to be packed: para_tokens > MAX_CHUNK_SIZE
IsOversized(para_tokens) == para_tokens > config.max_chunk_size

\* (mutant) the sentence fragment is closed at the target size
ClosesFragmentAtTarget(temp_tokens, sent_tokens) ==
  temp_tokens + sent_tokens > config.target_chunk_size

\* if temp_tokens + sent_tokens > MAX_CHUNK_SIZE
ClosesFragment(temp_tokens, sent_tokens) ==
  temp_tokens + sent_tokens > config.max_chunk_size

\* the inner for loop over the sentences of one oversized paragraph, from the
\* state (chunks, temp_chunk, temp_tokens), with the flush that follows it
RECURSIVE PackSentences(_, _, _, _, _)
PackSentences(sentences, i, acc, temp_chunk, temp_tokens) ==
  IF i > Len(sentences)
  THEN IF temp_chunk # << >> THEN Append(acc, Join(temp_chunk, << " " >>)) ELSE acc
  ELSE LET sentence    == sentences[i]
           sent_tokens == count_tokens(sentence)
       IN IF ClosesFragment(temp_tokens, sent_tokens)
          THEN PackSentences(sentences, i + 1,
                 IF temp_chunk # << >>
                 THEN Append(acc, Join(temp_chunk, << " " >>)) ELSE acc,
                 << sentence >>, sent_tokens)
          ELSE PackSentences(sentences, i + 1, acc,
                 Append(temp_chunk, sentence), temp_tokens + sent_tokens)

\* (mutant) the group is never closed before the end
ClosesGroupNever(current_tokens, para_tokens, target_size, current_chunk) == FALSE

\* (mutant) the group is closed as soon as the target is reached
ClosesGroupAtTarget(current_tokens, para_tokens, target_size, current_chunk) ==
  current_tokens + para_tokens >= target_size /\ current_chunk # << >>

\* the group is closed before this paragraph is added
ClosesGroup(current_tokens, para_tokens, target_size, current_chunk) ==
  current_tokens + para_tokens > target_size /\ current_chunk # << >>

\* the for loop over the paragraphs, from the state (chunks, current_chunk,
\* current_tokens), with the flush of the remaining group that follows it
RECURSIVE PackParagraphs(_, _, _, _, _, _)
PackParagraphs(paragraphs, i, target_size, acc, current_chunk, current_tokens) ==
  IF i > Len(paragraphs)
  THEN IF current_chunk # << >>
       THEN Append(acc, Join(current_chunk, << "\n", "\n" >>)) ELSE acc
  ELSE LET paragraph   == paragraphs[i]
           para_tokens == count_tokens(paragraph)
           flushed     == IF current_chunk # << >>
                          THEN Append(acc, Join(current_chunk, << "\n", "\n" >>))
                          ELSE acc
       IN IF IsOversized(para_tokens)
          THEN PackParagraphs(paragraphs, i + 1, target_size,
                 PackSentences(Sentences(paragraph), 1, flushed, << >>, 0),
                 << >>, 0)
          ELSE IF ClosesGroup(current_tokens, para_tokens, target_size, current_chunk)
          THEN PackParagraphs(paragraphs, i + 1, target_size,
                 flushed, << paragraph >>, para_tokens)
          ELSE PackParagraphs(paragraphs, i + 1, target_size,
                 acc, Append(current_chunk, paragraph), current_tokens + para_tokens)

chunk_by_paragraphs(t, target_size) ==
  PackParagraphs(Paragraphs(t), 1, target_size, << >>, << >>, 0)

(***************************************************************************)
(* chunk_document(doc_data).  A document is a record of the fields of the  *)
(* raw JSON object: its domain is the set of keys the object has.          *)
(***************************************************************************)
Has(doc, key) == key \in DOMAIN doc

\* doc_data.get(key, "")
Get(doc, key) == IF Has(doc, key) THEN doc[key] ELSE << >>

\* str(n) for n >= 0, as the sequence of its decimal digits
RECURSIVE Str(_)
Str(n) ==
  LET digit == << "0", "1", "2", "3", "4", "5", "6", "7", "8", "9" >>[(n % 10) + 1]
  IN IF n < 10 THEN << digit >> ELSE Append(Str(n \div 10), digit)

\* (mutant) the index is left out of the id
ChunkIdWithoutIndex(doc_id, idx) == doc_id \o << "_", "c", "h", "u", "n", "k", "_" >>

\* f"{doc_id}_chunk_{idx}"
ChunkId(doc_id, idx) == doc_id \o << "_", "c", "h", "u", "n", "k", "_" >> \o Str(idx)

\* the unit is still too large and is split further by tokens
NeedsSlicing(token_count) == token_count > config.max_chunk_size

\* (mutant) slicing is decided on the sum of the paragraphs' own counts, as
\* the segmenter kept it, not on the count of the joined text
UnitChunksByRunningSum(chunk_text) ==
  LET parts == Paragraphs(chunk_text)
  IN IF NeedsSlicing(Sum([k \in 1..Len(parts) |-> count_tokens(parts[k])]))
     THEN split_text_by_tokens(chunk_text, config.target_chunk_size, config.overlap_size)
     ELSE << chunk_text >>

\* (mutant) the unit is never split further
UnitChunksUnsliced(chunk_text) == << chunk_text >>

\* the texts one unit of chunk_by_paragraphs contributes to final_chunks
UnitChunks(chunk_text) ==
  IF NeedsSlicing(count_tokens(chunk_text))
  THEN split_text_by_tokens(chunk_text, config.target_chunk_size, config.overlap_size)
  ELSE << chunk_text >>

\* final_chunks: the for loop over text_chunks
FinalChunks(text_chunks) ==
  Cat([k \in 1..Len(text_chunks) |-> UnitChunks(text_chunks[k])])

\* (mutant) the running sum of the paragraphs' counts, taken before the join
RecordTokenCountStale(chunk_text) ==
  Sum([k \in 1..Len(Paragraphs(chunk_text)) |-> count_tokens(Paragraphs(chunk_text)[k])])

\* token_count of the record built for chunk_text
RecordTokenCount(chunk_text) == count_tokens(chunk_text)

\* (mutant) the index of the last chunk instead of the number of chunks
RecordTotalChunksLastIndex(final_chunks) == Len(final_chunks) - 1

\* metadata.total_chunks of the records built from final_chunks
RecordTotalChunks(final_chunks) == Len(final_chunks)

\* the Chunk built for final_chunks[idx + 1]
ChunkRecord(doc, final_chunks, idx) ==
  [chunk_id    |-> ChunkId(doc.id, idx),
   content     |-> final_chunks[idx + 1],
   token_count |-> RecordTokenCount(final_chunks[idx + 1]),
   chunk_index |-> idx,
   metadata    |-> [document_id  |-> doc.id,
                    title        |-> doc.title,
                    category     |-> doc.category,
                    source       |-> Get(doc, "source"),
                    url          |-> Get(doc, "url"),
                    tags         |-> doc.tags,
                    difficulty   |-> Get(doc, "difficulty"),
                    chunk_index  |-> idx,
                    total_chunks |-> RecordTotalChunks(final_chunks)]]

\* the call never returns: a unit that needs slicing makes the slicer diverge
DocumentDiverges(doc) ==
  LET text_chunks == chunk_by_paragraphs(doc.content, config.target_chunk_size)
  IN \E k \in 1..Len(text_chunks) :
       /\ NeedsSlicing(count_tokens(text_chunks[k]))
       /\ SliceDiverges(text_chunks[k], config.target_chunk_size, config.overlap_size)

\* the call raises: KeyError when content or id is missing (they are read
\* first), the tokenizer's error when a paragraph is measured that it does
\* not encode, KeyError for title, category or tags when a Chunk is built
DocumentRaises(doc) ==
  IF ~Has(doc, "content") \/ ~Has(doc, "id") THEN TRUE
  ELSE IF EncodeRaises(doc.content) THEN TRUE
  ELSE IF DocumentDiverges(doc) THEN FALSE
  ELSE /\ FinalChunks(chunk_by_paragraphs(doc.content, config.target_chunk_size)) # << >>
       /\ ~(\A key \in {"title", "category", "tags"} : Has(doc, key))

\* (mutant) the list of records is shared between calls: a call returns the
\* records of the earlier calls followed by its own
chunk_document_shared_list(doc) ==
  LET text_chunks  == chunk_by_paragraphs(doc.content, config.target_chunk_size)
      final_chunks == FinalChunks(text_chunks)
  IN all_chunks_data \o [k \in 1..Len(final_chunks) |-> ChunkRecord(doc, final_chunks, k - 1)]

\* the list of Chunk records the call returns, when it returns
chunk_document(doc) ==
  LET text_chunks  == chunk_by_paragraphs(doc.content, config.target_chunk_size)
      final_chunks == FinalChunks(text_chunks)
  IN [k \in 1..Len(final_chunks) |-> ChunkRecord(doc, final_chunks, k - 1)]

(***************************************************************************)
(* process_all_documents(): the batch driver.  A raw file either parses    *)
(* as JSON into a document or does not.                                    *)
(***************************************************************************)
\* the entry of the output for one file
Ok(cs)  == [status |-> "ok", chunks |-> cs]
Failed  == [status |-> "error", chunks |-> << >>]
Hung    == [status |-> "hung", chunks |-> << >>]

\* json.load and chunk_document raise for this file
FileRaises(file) == IF file.valid_json THEN DocumentRaises(file.doc) ELSE TRUE

\* sum(c.token_count for c in chunks)
ChunkTokens(cs) == Sum([k \in 1..Len(cs) |-> cs[k].token_count])

\* (mutant) the last chunk of the document is left out
ExtendWithoutLast(acc, cs) == acc \o SubSeq(cs, 1, Len(cs) - 1)

\* all_chunks_data.extend(chunks_dict)
Extend(acc, cs) == acc \o cs

\* if not files: exit(1)
NoFiles ==
  /\ pc = "start"
  /\ files = << >>
  /\ pc' = "exit"
  /\ UNCHANGED << config, files, next_file, all_chunks_data, total_chunks,
                  total_tokens, outcome >>
  /\ UNCHANGED << slice_vars, embed_vars >>

FoundFiles ==
  /\ pc = "start"
  /\ files # << >>
  /\ pc' = "loop"
  /\ UNCHANGED << config, files, next_file, all_chunks_data, total_chunks,
                  total_tokens, outcome >>
  /\ UNCHANGED << slice_vars, embed_vars >>

\* one iteration of the for loop whose try block completes
ProcessFile ==
  /\ pc = "loop"
  /\ next_file <= Len(files)
  /\ ~FileRaises(files[next_file])
  /\ ~DocumentDiverges(files[next_file].doc)
  /\ LET cs == chunk_document(files[next_file].doc)
     IN /\ all_chunks_data' = Extend(all_chunks_data, cs)
        /\ total_chunks' = total_chunks + Len(cs)
        /\ total_tokens' = total_tokens + ChunkTokens(cs)
        /\ outcome' = Append(outcome, Ok(cs))
  /\ next_file' = next_file + 1
  /\ UNCHANGED << config, files, pc >>
  /\ UNCHANGED << slice_vars, embed_vars >>

\* one iteration of the for loop whose try block raises: the except clause
\* reports the file and the loop goes on
ProcessFileError ==
  /\ pc = "loop"
  /\ next_file <= Len(files)
  /\ FileRaises(files[next_file])
  /\ outcome' = Append(outcome, Failed)
  /\ next_file' = next_file + 1
  /\ UNCHANGED << config, files, all_chunks_data, total_chunks, total_tokens, pc >>
  /\ UNCHANGED << slice_vars, embed_vars >>

\* one iteration of the for loop in which chunk_document never returns
ProcessFileHangs ==
  /\ pc = "loop"
  /\ next_file <= Len(files)
  /\ ~FileRaises(files[next_file])
  /\ DocumentDiverges(files[next_file].doc)
  /\ outcome' = Append(outcome, Hung)
  /\ pc' = "hung"
  /\ UNCHANGED << config, files, next_file, all_chunks_data, total_chunks,
                  total_tokens >>
  /\ UNCHANGED << slice_vars, embed_vars >>

\* after the loop: chunks.json and index.json are written
SaveOutput ==
  /\ pc = "loop"
  /\ next_file > Len(files)
  /\ pc' = "done"
  /\ UNCHANGED << config, files, next_file, all_chunks_data, total_chunks,
                  total_tokens, outcome >>
  /\ UNCHANGED << slice_vars, embed_vars >>

(***************************************************************************)
(* split_text_by_tokens, one loop iteration at a time.                     *)
(***************************************************************************)
\* tokens = ENCODING.encode(text); chunks = []; start = 0
SliceEnter ==
  /\ slice_pc = "call"
  /\ tokens' = encode(text)
  /\ chunks' = << >>
  /\ spans' = << >>
  /\ start' = 0
  /\ slice_pc' = "loop"
  /\ UNCHANGED << text, max_tokens, overlap >>
  /\ UNCHANGED << batch_vars, embed_vars >>

\* one iteration of the while loop.  The model follows a call that does not
\* return for one window more than there are tokens and no further.
SliceIterate ==
  /\ slice_pc = "loop"
  /\ start < Len(tokens)
  /\ Len(chunks) <= Len(tokens)
  /\ LET end == start + max_tokens
     IN /\ chunks' = Append(chunks, decode(WindowTokens(tokens, start, end)))
        /\ spans' = Append(spans, << start, end >>)
        /\ start' = NextStart(end, overlap)
        /\ slice_pc' = IF ReachedEnd(end, Len(tokens)) THEN "return" ELSE "loop"
  /\ UNCHANGED << text, max_tokens, overlap, tokens >>
  /\ UNCHANGED << batch_vars, embed_vars >>

\* the while condition fails: return chunks
SliceExit ==
  /\ slice_pc = "loop"
  /\ ~(start < Len(tokens))
  /\ slice_pc' = "return"
  /\ UNCHANGED << text, max_tokens, overlap, tokens, start, chunks, spans >>
  /\ UNCHANGED << batch_vars, embed_vars >>

(***************************************************************************)
(* scripts/generate_embeddings.py: process_chunks(), the embedding stage,  *)
(* one API attempt at a time.  The embeddings API answers a request with   *)
(* one vector per text, in the order of the texts, or fails.               *)
(***************************************************************************)
BATCH_SIZE == 100
MAX_RETRIES == 3

\* chunks[i:i + BATCH_SIZE]
Batch(cs, i) == PySlice(cs, i, i + BATCH_SIZE)

\* [chunk["content"] for chunk in batch]
Texts(batch) == [k \in 1..Len(batch) |-> batch[k].content]

\* [data.embedding for data in response.data]: the vectors of answer r; a
\* vector is known by the answer it came with and its position in it
Response(texts, r) == [k \in 1..Len(texts) |-> [answer |-> r, position |-> k]]

\* the record appended for one chunk and its embedding
EmbeddingRecord(chunk, embedding) ==
  [chunk_id    |-> chunk.chunk_id,
   embedding   |-> embedding,
   content     |-> chunk.content,
   token_count |-> chunk.token_count,
   metadata    |-> chunk.metadata]

\* (mutant) the chunks are paired with the embeddings from the last backwards
ZipReversed(batch, embeddings) ==
  LET n == IF Len(batch) <= Len(embeddings) THEN Len(batch) ELSE Len(embeddings)
  IN [k \in 1..n |-> EmbeddingRecord(batch[k], embeddings[n + 1 - k])]

\* for chunk, embedding in zip(batch, embeddings): embeddings_data.append(...)
Zip(batch, embeddings) ==
  LET n == IF Len(batch) <= Len(embeddings) THEN Len(batch) ELSE Len(embeddings)
  IN [k \in 1..n |-> EmbeddingRecord(batch[k], embeddings[k])]

\* (mutant) one retry more is allowed
MayRetryOnceMore(count) == count <= MAX_RETRIES

\* if retry_count < MAX_RETRIES
MayRetry(count) == count < MAX_RETRIES

\* the number of the API call being made for the batch in hand: process_chunks
\* calls generate_embeddings_batch with retry_count 0, every retry is one more
AttemptNumber == IF retry_count = 0 THEN 1 ELSE attempts + 1

\* embeddings.json before process_chunks has written it
NotWritten == [written |-> FALSE, data |-> << >>]

\* chunks.json does not exist: exit(1)
NoChunksFile ==
  /\ embed_pc = "start"
  /\ ~chunks_file.exists
  /\ embed_pc' = "exit"
  /\ UNCHANGED << chunks_file, loaded_chunks, batch_start, embeddings_data,
                  embedded_tokens, retry_count, responses, attempts,
                  embeddings_file >>
  /\ UNCHANGED << batch_vars, slice_vars >>

\* chunks = json.load(f); embeddings_data = []; total_tokens = 0
LoadChunks ==
  /\ embed_pc = "start"
  /\ chunks_file.exists
  /\ loaded_chunks' = chunks_file.chunks
  /\ batch_start' = 0
  /\ embeddings_data' = << >>
  /\ embedded_tokens' = 0
  /\ retry_count' = 0
  /\ embed_pc' = "loop"
  /\ UNCHANGED << chunks_file, responses, attempts, embeddings_file >>
  /\ UNCHANGED << batch_vars, slice_vars >>

\* an attempt of generate_embeddings_batch succeeds: the batch's chunks are
\* combined with the embeddings returned and the loop moves to the next batch
EmbedBatch ==
  /\ embed_pc = "loop"
  /\ batch_start < Len(loaded_chunks)
  /\ \E r \in 1..MaxResponses :
       LET batch      == Batch(loaded_chunks, batch_start)
           embeddings == Response(Texts(batch), r)
       IN /\ embeddings_data' = embeddings_data \o Zip(batch, embeddings)
          /\ embedded_tokens' =
               embedded_tokens + Sum([k \in 1..Len(batch) |-> batch[k].token_count])
          /\ responses' = Append(responses, embeddings)
  /\ attempts' = AttemptNumber
  /\ batch_start' = batch_start + BATCH_SIZE
  /\ retry_count' = 0
  /\ UNCHANGED << chunks_file, loaded_chunks, embeddings_file, embed_pc >>
  /\ UNCHANGED << batch_vars, slice_vars >>

\* an attempt fails with retry_count < MAX_RETRIES: sleep and call again
RetryBatch ==
  /\ embed_pc = "loop"
  /\ batch_start < Len(loaded_chunks)
  /\ MayRetry(retry_count)
  /\ attempts' = AttemptNumber
  /\ retry_count' = retry_count + 1
  /\ UNCHANGED << chunks_file, loaded_chunks, batch_start, embeddings_data,
                  embedded_tokens, responses, embeddings_file, embed_pc >>
  /\ UNCHANGED << batch_vars, slice_vars >>

\* an attempt fails with no retry left: the error leaves process_chunks and
\* nothing is saved
GiveUpBatch ==
  /\ embed_pc = "loop"
  /\ batch_start < Len(loaded_chunks)
  /\ ~MayRetry(retry_count)
  /\ attempts' = AttemptNumber
  /\ embed_pc' = "raised"
  /\ UNCHANGED << chunks_file, loaded_chunks, batch_start, embeddings_data,
                  embedded_tokens, retry_count, responses, embeddings_file >>
  /\ UNCHANGED << batch_vars, slice_vars >>

\* after the loop: embeddings.json and index.json are written
SaveEmbeddings ==
  /\ embed_pc = "loop"
  /\ ~(batch_start < Len(loaded_chunks))
  /\ embeddings_file' = [written |-> TRUE, data |-> embeddings_data]
  /\ embed_pc' = "done"
  /\ UNCHANGED << chunks_file, loaded_chunks, batch_start, embeddings_data,
                  embedded_tokens, retry_count, responses, attempts >>
  /\ UNCHANGED << batch_vars, slice_vars >>

(***************************************************************************)
(* Inputs.                                                                 *)
(***************************************************************************)
Chars == {"a", ".", " ", "\n"}

TextsUpTo(n) == UNION {[1..k -> Chars] : k \in 0..n}

\* paragraphs long documents are assembled from: short ones, one of exactly
\* the canonical maximum, oversized ones without a period, one of three
\* sentences and one of periods only
Palette ==
  { Rep("a", 40), Rep("b", 60), Rep("a", 400), Rep("a", 1000), Rep("a", 1400),
    Rep("b", 2000), Cat(Rep(Rep("b", 400) \o << ".", " " >>, 3)), Rep(".", 1001) }

LongTexts ==
  {Join(paras, << "\n", "\n" >>) : paras \in UNION {[1..k -> Palette] : k \in 1..MaxSegs}}

\* configurations with sizes small enough for every short text to be tried
SmallConfigs ==
  { [target_chunk_size |-> 2, max_chunk_size |-> 3, min_chunk_size |-> 1, overlap_size |-> 1],
    [target_chunk_size |-> 2, max_chunk_size |-> 4, min_chunk_size |-> 1, overlap_size |-> 1],
    [target_chunk_size |-> 2, max_chunk_size |-> 2, min_chunk_size |-> 1, overlap_size |-> 0],
    [target_chunk_size |-> 2, max_chunk_size |-> 3, min_chunk_size |-> 1, overlap_size |-> 2],
    [target_chunk_size |-> 3, max_chunk_size |-> 2, min_chunk_size |-> 1, overlap_size |-> 1] }

\* the configuration of the source, and the source's sizes with overlap 800
LongConfigs ==
  { Canonical, [Canonical EXCEPT !.overlap_size = 800] }

Configs == SmallConfigs \cup LongConfigs

Document(id, content) ==
  [id |-> id, title |-> << "T" >>, category |-> << "c" >>,
   tags |-> << << "t", "1" >>, << "t", "2" >> >>, content |-> content,
   url |-> << "u" >>]

File(doc) == [valid_json |-> TRUE, doc |-> doc]

BadJson == [valid_json |-> FALSE, doc |-> [x \in {} |-> x]]

\* the field `key` removed from a document
Without(doc, key) == [k \in (DOMAIN doc) \ {key} |-> doc[k]]

\* files of batches of several documents; the file at position k gets id
\* "d<k>", or the id "d1" of the first file once more
BatchContents ==
  { << "a" >>, << "a", "a", "a", "a" >>, << "a", ".", "b", "." >>,
    << "a", "\n", "\n", "b" >>, << >>,
    << "a", "\n", "\n", "a", "\n", "\n", "a", "." >> }

BatchFilesAt(k) ==
  LET id == << "d" >> \o Str(k)
  IN {File(Document(id, c)) : c \in BatchContents}
       \cup {BadJson,
             File(Document(<< "d", "1" >>, << "a", "a", "a", "a" >>)),
             File(Document(id, << "a", "\n", "\n", SpecialToken >>)),
             File(Without(Document(id, << "a" >>), "title")),
             File(Without(Document(id, << >>), "title")),
             File(Without(Document(id, << "a" >>), "content"))}

Batches ==
  UNION {{fs \in [1..n -> UNION {BatchFilesAt(k) : k \in 1..n}] :
            \A k \in 1..n : fs[k] \in BatchFilesAt(k)} : n \in 2..MaxFiles}

SingleFile(contents) == {<< File(Document(<< "d", "1" >>, c)) >> : c \in contents}

FilesFor(c) ==
  IF c = Canonical THEN SingleFile(LongTexts)
  ELSE IF c \in LongConfigs THEN SingleFile(Palette)
  ELSE SingleFile(TextsUpTo(MaxLen)) \cup Batches \cup {<< >>}

\* the chunk records of document number d, which has m chunks
DocumentChunks(d, m) ==
  LET doc   == Document(<< "d" >> \o Str(d), << >>)
      final == [x \in 1..m |-> << "c" >> \o Str(d) \o << " " >> \o Str(x)]
  IN [x \in 1..m |-> ChunkRecord(doc, final, x - 1)]

\* a chunks.json of n records: documents of ChunksPerDocument chunks each and
\* a last one with the rest
InputChunks(n) ==
  LET full == n \div ChunksPerDocument
  IN Cat([d \in 1..full |-> DocumentChunks(d, ChunksPerDocument)])
       \o DocumentChunks(full + 1, n % ChunksPerDocument)

ChunksFiles ==
  {[exists |-> FALSE, chunks |-> << >>]}
    \cup {[exists |-> TRUE, chunks |-> InputChunks(n)] : n \in 0..MaxChunks}

(***************************************************************************)
(* Specifications.                                                         *)
(***************************************************************************)
SliceIdle ==
  /\ text = << >>
  /\ max_tokens = 0
  /\ overlap = 0
  /\ tokens = << >>
  /\ start = 0
  /\ chunks = << >>
  /\ spans = << >>
  /\ slice_pc = "idle"

BatchIdle ==
  /\ config = Canonical
  /\ files = << >>
  /\ next_file = 1
  /\ all_chunks_data = << >>
  /\ total_chunks = 0
  /\ total_tokens = 0
  /\ outcome = << >>
  /\ pc = "idle"

EmbedIdle ==
  /\ chunks_file = [exists |-> FALSE, chunks |-> << >>]
  /\ loaded_chunks = << >>
  /\ batch_start = 0
  /\ embeddings_data = << >>
  /\ embedded_tokens = 0
  /\ retry_count = 0
  /\ responses = << >>
  /\ attempts = 0
  /\ embeddings_file = NotWritten
  /\ embed_pc = "idle"

\* a run of the script over one set of raw files
Init ==
  /\ config \in Configs
  /\ files \in FilesFor(config)
  /\ next_file = 1
  /\ all_chunks_data = << >>
  /\ total_chunks = 0
  /\ total_tokens = 0
  /\ outcome = << >>
  /\ pc = "start"
  /\ SliceIdle
  /\ EmbedIdle

Next ==
  \/ NoFiles
  \/ FoundFiles
  \/ ProcessFile
  \/ ProcessFileError
  \/ ProcessFileHangs
  \/ SaveOutput

Spec == Init /\ [][Next]_vars

\* the texts handed to the slicer: words of two letters and spaces
SliceTexts == UNION {[1..k -> {"a", "b", " "}] : k \in 0..MaxSliceLen}

\* the calls of split_text_by_tokens tried: every short text with every small
\* window and overlap, and oversized paragraphs with the canonical arguments
SliceCalls ==
  (SliceTexts \X (1..MaxWindow) \X (0..MaxWindow))
    \cup ({Rep("a", 1400), Rep("b", 2000)} \X {TARGET_CHUNK_SIZE} \X {OVERLAP_SIZE})

\* one call of split_text_by_tokens
InitSlice ==
  /\ BatchIdle
  /\ EmbedIdle
  /\ \E call \in SliceCalls :
       /\ text = call[1]
       /\ max_tokens = call[2]
       /\ overlap = call[3]
  /\ tokens = << >>
  /\ start = 0
  /\ chunks = << >>
  /\ spans = << >>
  /\ slice_pc = "call"

NextSlice ==
  \/ SliceEnter
  \/ SliceIterate
  \/ SliceExit

SpecSlice == InitSlice /\ [][NextSlice]_vars

\* one run of generate_embeddings.py over a chunks.json
InitEmbed ==
  /\ BatchIdle
  /\ SliceIdle
  /\ chunks_file \in ChunksFiles
  /\ loaded_chunks = << >>
  /\ batch_start = 0
  /\ embeddings_data = << >>
  /\ embedded_tokens = 0
  /\ retry_count = 0
  /\ responses = << >>
  /\ attempts = 0
  /\ embeddings_file = NotWritten
  /\ embed_pc = "start"

NextEmbed ==
  \/ NoChunksFile
  \/ LoadChunks
  \/ EmbedBatch
  \/ RetryBatch
  \/ GiveUpBatch
  \/ SaveEmbeddings

SpecEmbed == InitEmbed /\ [][NextEmbed]_vars

(***************************************************************************)
(* Properties.                                                             *)
(***************************************************************************)
\* the files handled so far for which chunk_document returned
Returned == {i \in 1..Len(outcome) : outcome[i].status = "ok"}

\* the document of file i and the chunks chunk_document returned for it
DocOf(i) == files[i].doc
ChunksOf(i) == outcome[i].chunks

\* the units chunk_by_paragraphs yields for the document of file i
UnitsOf(i) == chunk_by_paragraphs(DocOf(i).content, config.target_chunk_size)

\* C1: when the target does not exceed the maximum (as in the canonical
\* configuration), every chunk chunk_document returns has a token_count of
\* at most max_chunk_size, whichever path produced it.
C1_MaxIsCeiling ==
  config.target_chunk_size <= config.max_chunk_size =>
    \A i \in Returned : \A k \in 1..Len(ChunksOf(i)) :
      ChunksOf(i)[k].token_count <= config.max_chunk_size

\* C1 witness: under the canonical configuration a unit above the maximum
\* was sliced into windows, one of them a full window of target size
C1_Witness ==
  /\ config = Canonical
  /\ \E i \in Returned :
       /\ \E u \in 1..Len(UnitsOf(i)) : count_tokens(UnitsOf(i)[u]) > MAX_CHUNK_SIZE
       /\ \E k \in 1..Len(ChunksOf(i)) : ChunksOf(i)[k].token_count = TARGET_CHUNK_SIZE

\* C2: the chunks returned for a document carry chunk_index 0..N-1 in list
\* order, the same index in their metadata, and total_chunks = N.
C2_IndexesContiguous ==
  \A i \in Returned : \A k \in 1..Len(ChunksOf(i)) :
    /\ ChunksOf(i)[k].chunk_index = k - 1
    /\ ChunksOf(i)[k].metadata.chunk_index = k - 1
    /\ ChunksOf(i)[k].metadata.total_chunks = Len(ChunksOf(i))

\* C2 witness: a document for which slicing made more chunks than units
C2_Witness ==
  \E i \in Returned :
    /\ Len(UnitsOf(i)) >= 2
    /\ Len(ChunksOf(i)) > Len(UnitsOf(i))

\* C3: token_count of every returned chunk is the tokenizer's count of the
\* chunk's own content.
C3_TokenCountFresh ==
  \A i \in Returned : \A k \in 1..Len(ChunksOf(i)) :
    ChunksOf(i)[k].token_count = count_tokens(ChunksOf(i)[k].content)

\* C3 witness: a returned chunk, joined from several paragraphs, whose
\* count differs from the sum of its paragraphs' counts
C3_Witness ==
  \E i \in Returned : \E k \in 1..Len(ChunksOf(i)) :
    /\ Len(Paragraphs(ChunksOf(i)[k].content)) >= 2
    /\ ChunksOf(i)[k].token_count # RecordTokenCountStale(ChunksOf(i)[k].content)

\* the non-empty trimmed paragraphs of the document of file i, their token
\* counts, and the paragraphs joined by a blank line
ParagraphsOf(i) == Paragraphs(DocOf(i).content)
ParagraphCounts(ps) == [k \in 1..Len(ps) |-> count_tokens(ps[k])]
Normalised(ps) == Join(ps, << "\n", "\n" >>)

\* C4 (as stated): a document whose whole content (not empty after
\* trimming, the case of C6) measures at most max_chunk_size tokens yields
\* exactly one chunk, holding the content unchanged.
C4_FitsYieldsOneChunk ==
  \A i \in Returned :
    ( /\ Strip(DocOf(i).content) # << >>
      /\ count_tokens(DocOf(i).content) <= config.max_chunk_size ) =>
      /\ Len(ChunksOf(i)) = 1
      /\ ChunksOf(i)[1].content = DocOf(i).content

\* C4 (amended): a document with at least one non-empty paragraph, whose
\* paragraphs each measure at most max_chunk_size, sum to at most
\* target_chunk_size when there are several, and measure at most
\* max_chunk_size once joined by blank lines, yields exactly one chunk: the
\* trimmed paragraphs joined by blank lines (the content itself when it
\* already has that form).
C4_PackedYieldsOneChunk ==
  \A i \in Returned :
    LET ps == ParagraphsOf(i)
    IN ( /\ ps # << >>
         /\ \A k \in 1..Len(ps) : count_tokens(ps[k]) <= config.max_chunk_size
         /\ Len(ps) >= 2 => Sum(ParagraphCounts(ps)) <= config.target_chunk_size
         /\ count_tokens(Normalised(ps)) <= config.max_chunk_size )
       => /\ Len(ChunksOf(i)) = 1
          /\ ChunksOf(i)[1].content = Normalised(ps)

\* C4 witness: several paragraphs that sum to exactly the target, in a
\* content already in normal form, returned as the one chunk
C4_Witness ==
  \E i \in Returned :
    /\ Len(ParagraphsOf(i)) >= 2
    /\ Sum(ParagraphCounts(ParagraphsOf(i))) = config.target_chunk_size
    /\ DocOf(i).content = Normalised(ParagraphsOf(i))
    /\ Len(ChunksOf(i)) = 1
    /\ ChunksOf(i)[1].content = DocOf(i).content

\* the chunks one paragraph of a document contributes: an oversized paragraph
\* is packed on its own, after the pending group is flushed
ParagraphChunks(paragraph) ==
  FinalChunks(chunk_by_paragraphs(paragraph, config.target_chunk_size))

\* C5: under a valid configuration every paragraph above max_chunk_size is
\* decomposed into at least 2 chunks of at most max_chunk_size tokens each.
C5_OversizedDecomposed ==
  (config.target_chunk_size <= config.max_chunk_size
     /\ config.overlap_size < config.target_chunk_size) =>
    \A i \in Returned : \A j \in 1..Len(ParagraphsOf(i)) :
      count_tokens(ParagraphsOf(i)[j]) > config.max_chunk_size =>
        LET cs == ParagraphChunks(ParagraphsOf(i)[j])
        IN /\ Len(cs) >= 2
           /\ \A k \in 1..Len(cs) : count_tokens(cs[k]) <= config.max_chunk_size

\* C6: a file whose document has a content that is empty after trimming
\* ends in an error; chunk_document does not return for it.
C6_EmptyContentFails ==
  \A i \in 1..Len(outcome) :
    IF files[i].valid_json /\ Has(DocOf(i), "content") /\ Has(DocOf(i), "id")
    THEN Strip(DocOf(i).content) = << >> => outcome[i].status = "error"
    ELSE TRUE

\* C7: a document whose content is not empty after trimming, when
\* chunk_document returns for it, has at least one chunk.
C7_AtLeastOneChunk ==
  \A i \in Returned :
    Strip(DocOf(i).content) # << >> => Len(ChunksOf(i)) >= 1

\* the configuration the spec rejects
Misconfigured ==
  \/ config.overlap_size >= config.target_chunk_size
  \/ config.max_chunk_size < config.target_chunk_size

\* C8: under a configuration with overlap >= target or max < target the run
\* is rejected before any document is chunked: no chunk is produced.
C8_MisconfigurationRejected ==
  Misconfigured => all_chunks_data = << >>

\* C9: split_text_by_tokens terminates: every iteration after which the loop
\* goes on has moved the start offset forward (with overlap < max_tokens by
\* the arithmetic, with overlap >= max_tokens by the guard the spec requires).
C9_StartAdvances ==
  [][(slice_pc = "loop" /\ slice_pc' = "loop") => start' > start]_vars

\* the first and the last n elements of a sequence
FirstN(s, n) == SubSeq(s, 1, n)
LastN(s, n) == SubSeq(s, Len(s) - n + 1, Len(s))

\* C10: with overlap < max_tokens, consecutive windows share exactly
\* `overlap` token positions, and the last `overlap` tokens of a window are
\* the first `overlap` tokens of the next.
C10_ConsecutiveOverlap ==
  overlap < max_tokens =>
    \A i \in 1..(Len(chunks) - 1) :
      LET a == encode(chunks[i])
          b == encode(chunks[i + 1])
      IN /\ spans[i][2] - spans[i + 1][1] = overlap
         /\ spans[i + 1][1] > spans[i][1]
         /\ Len(a) >= overlap
         /\ Len(b) >= overlap
         /\ LastN(a, overlap) = FirstN(b, overlap)
         /\ LastN(a, overlap) = Slice(tokens, spans[i + 1][1], spans[i][2])

\* C10 witness: a call with 0 < overlap < max_tokens returned three or more
\* windows, the last one shorter than max_tokens
C10_Witness ==
  /\ slice_pc = "return"
  /\ overlap >= 1
  /\ overlap < max_tokens
  /\ Len(chunks) >= 3
  /\ Len(encode(chunks[Len(chunks)])) < max_tokens

\* whether a text holds no sentence terminator
NoPeriod(t) == \A k \in 1..Len(t) : t[k] # "."

\* the token offset at which chunk k must start in the source when every
\* chunk starts `ovl` tokens before the end of the one before it
WindowOffset(lens, k, ovl) ==
  Sum([j \in 1..(k - 1) |-> lens[j] - ovl])

\* whether the token sequences cs are windows of src that overlap by ovl
\* tokens each and end where src ends
WindowsOfSource(cs, src, ovl) ==
  LET lens == [k \in 1..Len(cs) |-> Len(cs[k])]
  IN /\ Len(cs) >= 1
     /\ \A k \in 1..Len(cs) :
          /\ lens[k] >= 1
          /\ cs[k] = Slice(src, WindowOffset(lens, k, ovl),
                           WindowOffset(lens, k, ovl) + lens[k])
     /\ WindowOffset(lens, Len(cs), ovl) + lens[Len(cs)] = Len(src)

\* C11: under a valid configuration, a document of one paragraph above
\* max_chunk_size that holds no sentence terminator yields chunks that are
\* windows of the paragraph's own token sequence: each of at most
\* max_chunk_size tokens, consecutive ones overlapping by overlap_size
\* tokens, the last one ending at the end of the source tokens, so that no
\* token is added to or dropped from the source.
C11_WindowsOfSourceTokens ==
  ~Misconfigured =>
    \A i \in Returned :
      LET ps == ParagraphsOf(i)
      IN IF Len(ps) = 1
         THEN (NoPeriod(ps[1]) /\ count_tokens(ps[1]) > config.max_chunk_size) =>
                /\ \A k \in 1..Len(ChunksOf(i)) :
                     ChunksOf(i)[k].token_count <= config.max_chunk_size
                /\ WindowsOfSource([k \in 1..Len(ChunksOf(i)) |->
                                      encode(ChunksOf(i)[k].content)],
                                   encode(ps[1]), config.overlap_size)
         ELSE TRUE

\* whether the chunks cs are the one chunk of content c, first and only
IsTheOneChunk(cs, c) ==
  /\ Len(cs) = 1
  /\ cs[1].content = c
  /\ cs[1].chunk_index = 0
  /\ cs[1].metadata.chunk_index = 0
  /\ cs[1].metadata.total_chunks = 1

\* C12 (as stated): a document with at least one non-empty paragraph, whose
\* paragraphs each fit max_chunk_size and whose paragraph counts sum to at
\* most target_chunk_size, yields exactly one chunk: the paragraphs in
\* order joined by the paragraph separator, chunk_index 0, total_chunks 1.
C12_ShortParagraphsOneChunk ==
  \A i \in Returned :
    LET ps == ParagraphsOf(i)
    IN ( /\ ps # << >>
         /\ \A k \in 1..Len(ps) : count_tokens(ps[k]) <= config.max_chunk_size
         /\ Sum(ParagraphCounts(ps)) <= config.target_chunk_size )
       => IsTheOneChunk(ChunksOf(i), Normalised(ps))

\* C12 (amended): the same, for documents whose paragraphs, once joined by
\* the paragraph separator (which is measured too), still measure at most
\* max_chunk_size.
C12_ShortParagraphsJoinedFit ==
  \A i \in Returned :
    LET ps == ParagraphsOf(i)
    IN ( /\ ps # << >>
         /\ \A k \in 1..Len(ps) : count_tokens(ps[k]) <= config.max_chunk_size
         /\ Sum(ParagraphCounts(ps)) <= config.target_chunk_size
         /\ count_tokens(Normalised(ps)) <= config.max_chunk_size )
       => IsTheOneChunk(ChunksOf(i), Normalised(ps))

\* C12 witness: the scenario: under the canonical configuration, paragraphs
\* of 40 and 60 tokens returned as the one chunk that joins them
C12_Witness ==
  /\ config = Canonical
  /\ \E i \in Returned :
       /\ ParagraphCounts(ParagraphsOf(i)) = << 40, 60 >>
       /\ IsTheOneChunk(ChunksOf(i), Normalised(ParagraphsOf(i)))
       /\ ChunksOf(i)[1].token_count = 101

AccumulatedOf(i) ==
  LET ofFile(c) == c.metadata.document_id = DocOf(i).id
  IN SelectSeq(all_chunks_data, ofFile)

\* the step of the batch loop leaves what was accumulated in place and adds
\* either nothing or all the chunks of the file it handles, in index order
ExtendsByWholeDocument ==
  LET n     == Len(all_chunks_data)
      m     == Len(all_chunks_data')
      added == SubSeq(all_chunks_data', n + 1, m)
  IN /\ m >= n
     /\ SubSeq(all_chunks_data', 1, n) = all_chunks_data
     /\ IF added = << >> THEN TRUE
        ELSE /\ pc = "loop"
             /\ next_file <= Len(files)
             /\ ~FileRaises(files[next_file])
             /\ added = chunk_document(files[next_file].doc)
             /\ \A k \in 1..Len(added) :
                  /\ added[k].chunk_index = k - 1
                  /\ added[k].metadata.total_chunks = Len(added)

\* C14: every step of process_all_documents keeps the chunks accumulated so
\* far unchanged and in place, and appends either no chunk (the file
\* failed: bad JSON, a missing field, a tokenizer error) or the complete
\* chunk sequence of the file, contiguous and in index order 0..N-1.
C14_AllOrNothing == [][ExtendsByWholeDocument]_vars

\* C14 witness: a batch in which a file failed after another file's chunks
\* were accumulated, and those chunks are all there, while the failed
\* document, whose first paragraph could have been chunked, left none
C14_Witness ==
  \E i, j \in 1..Len(outcome) :
    /\ i < j
    /\ outcome[i].status = "ok"
    /\ Len(ChunksOf(i)) >= 2
    /\ outcome[j].status = "error"
    /\ files[j].valid_json
    /\ Has(DocOf(j), "content")
    /\ EncodeRaises(DocOf(j).content)
    /\ AccumulatedOf(j) = << >>
    /\ all_chunks_data = ChunksOf(i)

\* the files for which chunk_document returned have pairwise distinct ids
DistinctDocumentIds ==
  \A i, j \in Returned : i # j => DocOf(i).id # DocOf(j).id

\* C15: every chunk's chunk_id is the document id, "_chunk_" and the decimal
\* chunk_index; the chunk ids of one document are pairwise distinct, and in
\* a batch of documents with pairwise distinct ids no two accumulated
\* chunks share a chunk_id.
C15_ChunkIdsDistinct ==
  /\ \A i \in Returned : \A k \in 1..Len(ChunksOf(i)) :
       /\ ChunksOf(i)[k].chunk_id =
            DocOf(i).id \o << "_", "c", "h", "u", "n", "k", "_" >>
                        \o Str(ChunksOf(i)[k].chunk_index)
       /\ \A l \in 1..Len(ChunksOf(i)) :
            k # l => ChunksOf(i)[k].chunk_id # ChunksOf(i)[l].chunk_id
  /\ DistinctDocumentIds =>
       \A p, q \in 1..Len(all_chunks_data) :
         p # q => all_chunks_data[p].chunk_id # all_chunks_data[q].chunk_id

\* C15 witness: two documents with different ids, of several chunks each,
\* accumulated with no chunk_id used twice
C15_Witness ==
  \E i, j \in Returned :
    /\ DocOf(i).id # DocOf(j).id
    /\ Len(ChunksOf(i)) >= 2
    /\ Len(ChunksOf(j)) >= 2
    /\ Len(all_chunks_data) = Len(ChunksOf(i)) + Len(ChunksOf(j))
    /\ \A p, q \in 1..Len(all_chunks_data) :
         p # q => all_chunks_data[p].chunk_id # all_chunks_data[q].chunk_id

\* C16: every chunk chunk_document returns has a content that is not empty
\* and a token_count of at least 1, under every configuration of positive
\* sizes and an overlap of 0 or more (also those with overlap >= target or
\* max < target), windows of the token-window slicer included.
C16_ContentNonEmpty ==
  \A i \in Returned : \A k \in 1..Len(ChunksOf(i)) :
    /\ ChunksOf(i)[k].content # << >>
    /\ ChunksOf(i)[k].token_count >= 1

\* C16 witness: a unit was sliced and its last window, a chunk of the
\* document, holds one single token
C16_Witness ==
  \E i \in Returned :
    LET cs == ChunksOf(i)
    IN /\ Len(cs) > Len(UnitsOf(i))
       /\ cs[Len(cs)].token_count = 1
       /\ cs[Len(cs)].content # << >>

\* the fields of a document that chunk_document reads without a default, and
\* the fields of the metadata of a chunk
RequiredFields == {"id", "content", "title", "category", "tags"}
MetadataFields ==
  {"document_id", "title", "category", "source", "url", "tags", "difficulty",
   "chunk_index", "total_chunks"}

\* whether the record c of document doc is fully populated from doc
FullyPopulated(c, doc) ==
  /\ DOMAIN c.metadata = MetadataFields
  /\ c.metadata.document_id = doc.id
  /\ c.metadata.title = doc.title
  /\ c.metadata.category = doc.category
  /\ c.metadata.tags = doc.tags
  /\ \A key \in {"source", "url", "difficulty"} :
       c.metadata[key] = IF Has(doc, key) THEN doc[key] ELSE << >>

\* C17: every record chunk_document emits carries the nine metadata fields,
\* with document_id, title, category and tags equal to the document's and
\* absent optional fields empty; for a document that lacks a required
\* field the call raises and no record of it is emitted.
C17_NoPartialRecord ==
  \A i \in 1..Len(outcome) :
    IF ~files[i].valid_json THEN TRUE
    ELSE IF \A key \in RequiredFields : Has(DocOf(i), key)
    THEN \A k \in 1..Len(ChunksOf(i)) : FullyPopulated(ChunksOf(i)[k], DocOf(i))
    ELSE /\ outcome[i].status = "error"
         /\ ChunksOf(i) = << >>

\* the batch chunk number k (from 1) belongs to, and its position in it
BatchOf(k) == ((k - 1) \div BATCH_SIZE) + 1
PositionOf(k) == ((k - 1) % BATCH_SIZE) + 1

\* C18: when every batch has succeeded and the embeddings are saved, there
\* is exactly one embedding record per chunk loaded, in the order of the
\* chunks, and record k pairs the chunk_id, content and metadata of chunk k
\* with the embedding returned for the position of chunk k in its batch.
C18_EmbeddingKeepsOrder ==
  embed_pc = "done" =>
    /\ Len(embeddings_data) = Len(loaded_chunks)
    /\ \A k \in 1..Len(embeddings_data) :
         /\ embeddings_data[k].chunk_id = loaded_chunks[k].chunk_id
         /\ embeddings_data[k].content = loaded_chunks[k].content
         /\ embeddings_data[k].metadata = loaded_chunks[k].metadata
         /\ embeddings_data[k].embedding = responses[BatchOf(k)][PositionOf(k)]

\* C18 witness: three batches, the last one of a single chunk, were embedded
\* with different answers and saved; the document whose chunks straddle the
\* first two batches has them next to each other in chunk_index order
C18_Witness ==
  /\ embed_pc = "done"
  /\ Len(responses) = 3
  /\ Len(responses[3]) = 1
  /\ responses[1][1].answer # responses[2][1].answer
  /\ Len(embeddings_data) = 2 * BATCH_SIZE + 1
  /\ embeddings_data[BATCH_SIZE].metadata.document_id
       = embeddings_data[BATCH_SIZE + 1].metadata.document_id
  /\ embeddings_data[BATCH_SIZE + 1].metadata.chunk_index
       = embeddings_data[BATCH_SIZE].metadata.chunk_index + 1

\* the chunks returned for every file are those chunk_document gives for its
\* document alone, so equal documents of one batch have equal chunks
ChunksDependOnDocumentOnly ==
  /\ \A i \in Returned : ChunksOf(i) = chunk_document(DocOf(i))
  /\ \A i, j \in Returned : DocOf(i) = DocOf(j) => ChunksOf(i) = ChunksOf(j)

PartsOf(unit) == Paragraphs(unit)
PartsTotal(unit) == Sum(ParagraphCounts(PartsOf(unit)))

\* every paragraph of the sequence fits max_chunk_size
NoneOversized(ps) ==
  \A j \in 1..Len(ps) : ~IsOversized(count_tokens(ps[j]))

\* C20: every unit chunk_by_paragraphs emits that is a group of paragraphs
\* (its parts all fit max_chunk_size) is not empty and either has per-
\* paragraph counts that sum to at most target_size or is one single
\* paragraph; and in a document without oversized paragraphs the groups are
\* the paragraphs in order, cut greedily: a group was closed only where the
\* next paragraph would have pushed its total above target_size.
C20_GreedyPacking ==
  \A i \in Returned :
    LET us == UnitsOf(i)
    IN /\ \A k \in 1..Len(us) :
            NoneOversized(PartsOf(us[k])) =>
              /\ PartsOf(us[k]) # << >>
              /\ \/ PartsTotal(us[k]) <= config.target_chunk_size
                 \/ Len(PartsOf(us[k])) = 1
       /\ NoneOversized(ParagraphsOf(i)) =>
            /\ Cat([k \in 1..Len(us) |-> PartsOf(us[k])]) = ParagraphsOf(i)
            /\ \A k \in 1..(Len(us) - 1) :
                 PartsTotal(us[k]) + count_tokens(PartsOf(us[k + 1])[1])
                   > config.target_chunk_size

\* C20 witness: a document of three paragraphs that fit, packed into a
\* group of two that fills the target exactly and a group of the third
C20_Witness ==
  \E i \in Returned :
    LET us == UnitsOf(i)
    IN /\ Len(ParagraphsOf(i)) = 3
       /\ NoneOversized(ParagraphsOf(i))
       /\ Len(us) = 2
       /\ Len(PartsOf(us[1])) = 2
       /\ PartsTotal(us[1]) = config.target_chunk_size
       /\ Len(PartsOf(us[2])) = 1

\* the sentences a sentence fragment was joined from, and their counts added
SentencesOf(fragment) == Sentences(fragment)
SentencesTotal(fragment) == Sum(ParagraphCounts(SentencesOf(fragment)))

\* the units of one paragraph taken alone
FragmentsOf(paragraph) == chunk_by_paragraphs(paragraph, config.target_chunk_size)

\* C21: a paragraph that fits max_chunk_size is never split into sentences
\* (alone, it is its own unit, unchanged); a paragraph above max_chunk_size
\* is emitted as its trimmed, re-terminated sentences in order, packed
\* greedily up to max_chunk_size: a fragment of several sentences sums to
\* at most max_chunk_size, a fragment was closed only where the next
\* sentence would have passed max_chunk_size, and a sentence that is itself
\* above max_chunk_size is a fragment of its own, not split further.
C21_SentenceFallback ==
  \A i \in Returned : \A j \in 1..Len(ParagraphsOf(i)) :
    LET paragraph == ParagraphsOf(i)[j]
        fs        == FragmentsOf(paragraph)
    IN IF ~IsOversized(count_tokens(paragraph))
       THEN fs = << paragraph >>
       ELSE /\ Cat([k \in 1..Len(fs) |-> SentencesOf(fs[k])]) = Sentences(paragraph)
            /\ \A k \in 1..Len(fs) :
                 /\ SentencesOf(fs[k]) # << >>
                 /\ fs[k] = Join(SentencesOf(fs[k]), << " " >>)
                 /\ \/ SentencesTotal(fs[k]) <= config.max_chunk_size
                    \/ Len(SentencesOf(fs[k])) = 1
            /\ \A k \in 1..(Len(fs) - 1) :
                 SentencesTotal(fs[k]) + count_tokens(SentencesOf(fs[k + 1])[1])
                   > config.max_chunk_size

\* C21 witness: under the canonical configuration an oversized paragraph of
\* three sentences came out as a fragment of two sentences, above the target
\* and within the maximum, and a fragment of the third
C21_Witness ==
  /\ config = Canonical
  /\ \E i \in Returned : \E j \in 1..Len(ParagraphsOf(i)) :
       LET fs == FragmentsOf(ParagraphsOf(i)[j])
       IN /\ IsOversized(count_tokens(ParagraphsOf(i)[j]))
          /\ Len(fs) = 2
          /\ Len(SentencesOf(fs[1])) = 2
          /\ SentencesTotal(fs[1]) > TARGET_CHUNK_SIZE
          /\ SentencesTotal(fs[1]) <= MAX_CHUNK_SIZE
          /\ Len(SentencesOf(fs[2])) = 1

\* what the units must hold for one paragraph: the paragraph itself when it
\* fits max_chunk_size, its sentence fragments when it does not
AtomsOfParagraph(paragraph) ==
  IF IsOversized(count_tokens(paragraph))
  THEN FragmentsOf(paragraph)
  ELSE << paragraph >>

\* C22: the units chunk_by_paragraphs returns, read in order, hold every
\* non-empty trimmed paragraph of the text exactly once and in document
\* order: a paragraph that fits as itself, an oversized one as its sentence
\* fragments (at least one), which come after the group of the paragraphs
\* before it and before the units of the paragraphs after it.
C22_OrderKeptNothingLost ==
  \A i \in Returned :
    LET ps == ParagraphsOf(i)
        us == UnitsOf(i)
    IN /\ \A j \in 1..Len(ps) : AtomsOfParagraph(ps[j]) # << >>
       /\ Cat([k \in 1..Len(us) |-> PartsOf(us[k])])
            = Cat([j \in 1..Len(ps) |-> AtomsOfParagraph(ps[j])])

\* the end of a window that starts at s, cut at the end of the tokens
ClampedEnd(s) ==
  IF s + max_tokens <= Len(tokens) THEN s + max_tokens ELSE Len(tokens)

\* C23: with overlap < max_tokens, the k-th window emitted (k = 0, 1, ...)
\* is tokens[k*(W-O) : min(k*(W-O) + W, L)]; every window but the last ends
\* before L and the call returns right after the first window whose end
\* reaches or passes L, short or not; once it has returned, every token
\* position 0..L-1 lies in some window.
C23_WindowFormula ==
  (overlap < max_tokens /\ slice_pc # "call") =>
    LET L    == Len(tokens)
        step == max_tokens - overlap
    IN /\ \A k \in 1..Len(chunks) :
            /\ spans[k][1] = (k - 1) * step
            /\ spans[k][2] = spans[k][1] + max_tokens
            /\ chunks[k] = decode(Slice(tokens, spans[k][1], ClampedEnd(spans[k][1])))
            /\ ClampedEnd(spans[k][1]) > spans[k][1]
            /\ k < Len(chunks) => spans[k][2] < L
       /\ (slice_pc = "loop" /\ chunks # << >>) => spans[Len(chunks)][2] < L
       /\ slice_pc = "return" =>
            /\ L >= 1 => /\ chunks # << >>
                         /\ spans[Len(chunks)][2] >= L
            /\ \A pos \in 0..(L - 1) :
                 \E k \in 1..Len(chunks) :
                   spans[k][1] <= pos /\ pos < ClampedEnd(spans[k][1])

\* C23 witness: six tokens cut with a window of 3 and an overlap of 1 into
\* the windows [0,3), [2,5) and the short last one [4,6)
C23_Witness ==
  /\ slice_pc = "return"
  /\ max_tokens = 3
  /\ overlap = 1
  /\ Len(tokens) = 6
  /\ spans = << << 0, 3 >>, << 2, 5 >>, << 4, 7 >> >>
  /\ chunks[3] = decode(Slice(tokens, 4, 6))

\* the contents of the chunks returned for file i
ContentsOf(i) == [k \in 1..Len(ChunksOf(i)) |-> ChunksOf(i)[k].content]

\* what the assembler must make of one unit: its token windows (window
\* target_chunk_size, the configured overlap) when its re-measured count is
\* above max_chunk_size, the unit itself otherwise
Assembled(unit) ==
  IF count_tokens(unit) > config.max_chunk_size
  THEN split_text_by_tokens(unit, config.target_chunk_size, config.overlap_size)
  ELSE << unit >>

\* C24: the chunks of a document are, unit by unit and in order, the token
\* windows of every unit whose re-measured count exceeds max_chunk_size and
\* the unchanged text, as one chunk, of every unit whose re-measured count
\* does not; the segmenter's running sum plays no part.
C24_SlicedIffRemeasuredAboveMax ==
  \A i \in Returned :
    ContentsOf(i) = Cat([k \in 1..Len(UnitsOf(i)) |-> Assembled(UnitsOf(i)[k])])

\* C24 witness: a group whose paragraphs sum to no more than max_chunk_size
\* but whose joined text measures more was sliced into several chunks, next
\* to a document state where the chunks are exactly those windows
C24_Witness ==
  \E i \in Returned :
    /\ Len(UnitsOf(i)) = 1
    /\ Len(PartsOf(UnitsOf(i)[1])) >= 2
    /\ PartsTotal(UnitsOf(i)[1]) <= config.max_chunk_size
    /\ count_tokens(UnitsOf(i)[1]) > config.max_chunk_size
    /\ Len(ChunksOf(i)) >= 2
    /\ ContentsOf(i) = Assembled(UnitsOf(i)[1])

\* the tokens of the k-th window emitted: tokens[start:end], cut at the end
WindowOf(k) == Slice(tokens, spans[k][1], ClampedEnd(spans[k][1]))

\* the smallest n with n * b >= a, for a >= 0 and b >= 1
CeilDiv(a, b) == (a + b - 1) \div b

\* every window emitted after the first reaches past the end of the window
\* before it and so holds at least overlap + 1 tokens
EachWindowAdvances ==
  \A k \in 2..Len(chunks) :
    /\ spans[k][1] <= spans[k-1][2]
    /\ ClampedEnd(spans[k][1]) > spans[k-1][2]
    /\ Len(WindowOf(k)) >= overlap + 1
    /\ chunks[k] = decode(WindowOf(k))

\* the number of windows the claim gives for L tokens
WindowCount(L) ==
  IF L <= max_tokens THEN 1 ELSE 1 + CeilDiv(L - max_tokens, max_tokens - overlap)

BatchesEmbedded == batch_start \div BATCH_SIZE

\* the records of every batch of chunks.json, one per chunk and in order
HoldsEveryBatch(data) ==
  /\ Len(data) = Len(loaded_chunks)
  /\ \A k \in 1..Len(data) : data[k].chunk_id = loaded_chunks[k].chunk_id

\* C26: no batch is sent to the API more than MAX_RETRIES + 1 = 4 times: the
\* first successful attempt ends the calls for its batch (one answer per
\* batch embedded), a failed attempt is retried while retry_count is below
\* MAX_RETRIES, the error leaves process_chunks only after the 4th failure in
\* a row, and then embeddings.json is not written; whenever it is written it
\* holds the records of every batch.
C26_BoundedRetriesAllOrNothing ==
  /\ attempts <= MAX_RETRIES + 1
  /\ retry_count <= MAX_RETRIES
  /\ Len(responses) = (IF embed_pc \in {"loop", "raised", "done"} THEN BatchesEmbedded ELSE 0)
  /\ (embed_pc = "loop" /\ retry_count > 0) => attempts = retry_count
  /\ embed_pc = "raised" =>
       /\ attempts = MAX_RETRIES + 1
       /\ retry_count = MAX_RETRIES
       /\ embeddings_file = NotWritten
  /\ embeddings_file.written =>
       /\ embed_pc = "done"
       /\ embeddings_file.data = embeddings_data
       /\ HoldsEveryBatch(embeddings_file.data)
  /\ (embed_pc = "done") => embeddings_file.written

\* C26 witness: the first batch was embedded, the second failed four times
\* in a row; the run has ended with the error and without embeddings.json
C26_Witness ==
  /\ embed_pc = "raised"
  /\ attempts = 4
  /\ BatchesEmbedded = 1
  /\ Len(embeddings_data) = BATCH_SIZE
  /\ Len(loaded_chunks) > BATCH_SIZE
  /\ ~embeddings_file.written

(***************************************************************************)
(* The operators above agree with the loop they abbreviate, and the        *)
(* tokenizer re-encodes every window to the tokens it was decoded from.    *)
(***************************************************************************)
SliceAgreesWithLoop ==
  /\ slice_pc = "return" =>
       /\ ~SliceDiverges(text, max_tokens, overlap)
       /\ chunks = split_text_by_tokens(text, max_tokens, overlap)
  /\ (slice_pc = "loop" /\ Len(chunks) > Len(tokens)) =>
       SliceDiverges(text, max_tokens, overlap)
  /\ (slice_pc = "loop" /\ ~(Len(chunks) <= Len(tokens))) =>
       start < Len(tokens)

RoundTripStable ==
  /\ slice_pc # "call" => decode(tokens) = text
  /\ \A i \in 1..Len(chunks) :
       encode(chunks[i]) = WindowTokens(tokens, spans[i][1], spans[i][2])

====
